---- MODULE Spec2Model ----
(***************************************************************************)
(* volatile/cors: the CORS handler of the volatile core.                   *)
(*                                                                         *)
(* The repository holds five revisions of the handler:                     *)
(*   "handler_v1"  src/handler.go lines 1-171   (formatCORS + setCORS)     *)
(*   "handler_v2"  src/handler.go lines 173-281 (setCORS on *OriginsMap)   *)
(*   "part_000"    src/unnamed/part_000         (setCORS on *OriginsMap)   *)
(*   "part_001"    src/unnamed/part_001         (formatCORS + setCORS)     *)
(*   "doc"         src/doc.go lines 81-241      (formatCORS + setCORS)     *)
(* The revision is a variable chosen by Init and never changed; every      *)
(* operation is translated once per revision.                              *)
(***************************************************************************)
EXTENDS Integers, Sequences, FiniteSets, TLC

VARIABLES rev, global, crashed, eval, stack, run, procs

vars == <<rev, global, crashed, eval, stack, run, procs>>

(* The variables of the handlers stack and of the concurrent requests. *)
otherVars == <<stack, run, procs>>

Revisions == {"handler_v1", "handler_v2", "part_000", "part_001", "doc"}

(* Revisions whose Use / LocalUse compile the options with formatCORS. *)
FormattingRevisions == {"handler_v1", "part_001", "doc"}

(* Revisions whose map values are Options structs, not *Options. *)
StructValueRevisions == {"handler_v1", "part_001"}

----------------------------------------------------------------------------
(* Constants of the source. *)

AllOrigins == "*"

headerAllowCredentials == "Access-Control-Allow-Credentials"
headerAllowHeaders == "Access-Control-Allow-Headers"
headerAllowMethods == "Access-Control-Allow-Methods"
headerAllowOrigin == "Access-Control-Allow-Origin"
headerExposeHeaders == "Access-Control-Expose-Headers"
headerMaxAge == "Access-Control-Max-Age"
headerVary == "Vary"

StatusOK == 200
StatusForbidden == 403

(* time.Duration is counted here in milliseconds, so one second is 1000. *)
Second == 1000

CORSHeaders ==
    {headerAllowOrigin, headerVary, headerAllowCredentials, headerExposeHeaders,
     headerMaxAge, headerAllowHeaders, headerAllowMethods}

----------------------------------------------------------------------------
(* Bounds of the model. *)

(* Length of a configured, non-empty list (a list is empty or this long). *)
MaxLen == 2

(* The configured non-zero max-age, in seconds. *)
MaxAgeSeconds == 2

(* The largest max-age, in quarters of a second either side of zero, of    *)
(* the specification that varies the max-age alone.                        *)
MaxAgeQuarters == 6

----------------------------------------------------------------------------
(* Input domains. *)

HeaderNames == <<"Content-Type", "Authorization", "Accept", "X-Token">>
MethodNames == <<"GET", "POST", "PUT", "DELETE">>
ExposeNames == <<"X-Total", "X-Page", "X-Next", "X-Prev">>

Lists(names) == {SubSeq(names, 1, n) : n \in {0, MaxLen}}

Durations == {0, MaxAgeSeconds * Second}

(* Options: the zero value of the struct has nil = FALSE and every field   *)
(* zero; NilOptions stands for a nil *Options.                             *)
Options(ah, am, cred, eh, age) ==
    [nil |-> FALSE, AllowedHeaders |-> ah, AllowedMethods |-> am,
     CredentialsAllowed |-> cred, ExposedHeaders |-> eh, MaxAge |-> age]

ZeroOptions == Options(<<>>, <<>>, FALSE, <<>>, 0)

NilOptions == [ZeroOptions EXCEPT !.nil = TRUE]

OptionsSet ==
    {Options(ah, am, cred, eh, age) :
        ah \in Lists(HeaderNames), am \in Lists(MethodNames), cred \in BOOLEAN,
        eh \in Lists(ExposeNames), age \in Durations}

KnownOrigin == "example.com"
OtherOrigin == "other.com"

PolicyKeys == {KnownOrigin, AllOrigins}

EmptyMap == [k \in {} |-> NilOptions]

(* A policy argument: isNil is the nil pointer (or nil map), m the map. *)
NilPolicy == [isNil |-> TRUE, m |-> EmptyMap]

MapsOver(values) ==
    UNION {[keys -> values] : keys \in SUBSET PolicyKeys}

Policies(values) ==
    {NilPolicy} \cup {[isNil |-> FALSE, m |-> f] : f \in MapsOver(values)}

(* What the revision's parameter type admits. *)
PoliciesOf(r) ==
    IF r \in StructValueRevisions
    THEN Policies(OptionsSet)
    ELSE Policies(OptionsSet \cup {NilOptions})

Requests ==
    [Origin : {"", KnownOrigin, OtherOrigin, AllOrigins},
     Method : {"GET", "OPTIONS"},
     RequestHeaders : {"", "X-Foo, X-Bar"},
     RequestMethod : {"", "PUT"}]

----------------------------------------------------------------------------
(* The response writer. *)

NoHeaders == [k \in {} |-> ""]

NewResponse ==
    [headers |-> NoHeaders, status |-> 0, body |-> "", handlerCalls |-> 0,
     log |-> <<>>]

(* http.Header.Set: the header is present afterwards, also with value "". *)
HeaderSet(w, k, v) ==
    [w EXCEPT
        !.headers = [x \in (DOMAIN w.headers) \cup {k} |->
                        IF x = k THEN v ELSE w.headers[x]],
        !.log = Append(@, "Set " \o k)]

(* http.ResponseWriter.WriteHeader: the first status written stands. *)
WriteHeader(w, code) ==
    IF w.status = 0
    THEN [w EXCEPT !.status = code, !.log = Append(@, "WriteHeader")]
    ELSE w

(* http.Error: plain-text headers, the status, the message and a newline. *)
httpError(w, msg, code) ==
    LET w1 == HeaderSet(w, "Content-Type", "text/plain; charset=utf-8")
        w2 == HeaderSet(w1, "X-Content-Type-Options", "nosniff")
        w3 == WriteHeader(w2, code)
    IN [w3 EXCEPT !.body = msg \o "\n", !.log = Append(@, "Write")]

(* The handler argument of setCORS (c.Next or the local func) is called. *)
CallHandler(w) ==
    [w EXCEPT !.handlerCalls = @ + 1, !.log = Append(@, "handler")]

----------------------------------------------------------------------------
(* String helpers. *)

RECURSIVE Join(_, _)
(* strings.Join *)
Join(list, sep) ==
    IF Len(list) = 0 THEN ""
    ELSE IF Len(list) = 1 THEN list[1]
    ELSE list[1] \o sep \o Join(Tail(list), sep)

(* fmt.Sprintf("%.f", d.Seconds()): the seconds rounded to the nearest     *)
(* integer, ties to even, with the sign kept ("-0" below zero).            *)
FormatSeconds(d) ==
    LET abs == IF d < 0 THEN 0 - d ELSE d
        q == abs \div Second
        r == abs % Second
        n == IF 2 * r > Second \/ (2 * r = Second /\ q % 2 = 1) THEN q + 1 ELSE q
    IN (IF d < 0 THEN "-" ELSE "") \o ToString(n)

----------------------------------------------------------------------------
(* Revision part_000. *)

(* The map setCORS reads: a nil or empty policy becomes {AllOrigins: nil}. *)
effectiveOrigins_part000(origins) ==
    IF origins.isNil \/ DOMAIN origins.m = {}
    THEN [k \in {AllOrigins} |-> NilOptions]
    ELSE origins.m

(* Mutant: an unknown origin passes although the map has no wildcard key. *)
lookup_part000_anyOrigin(m, origin) ==
    LET knownOrigin == origin \in DOMAIN m
        allOriginsAllowed == ~knownOrigin
    IN [knownOrigin |-> knownOrigin,
        allOriginsAllowed |-> allOriginsAllowed,
        opts |-> IF knownOrigin THEN m[origin]
                 ELSE IF AllOrigins \in DOMAIN m THEN m[AllOrigins]
                 ELSE NilOptions]

(* Mutant: the wildcard entry is looked up before the exact key. *)
lookup_part000_wildcardFirst(m, origin) ==
    LET allOriginsAllowed == AllOrigins \in DOMAIN m
        knownOrigin == ~allOriginsAllowed /\ origin \in DOMAIN m
    IN [knownOrigin |-> knownOrigin,
        allOriginsAllowed |-> allOriginsAllowed,
        opts |-> IF allOriginsAllowed THEN m[AllOrigins]
                 ELSE IF knownOrigin THEN m[origin]
                 ELSE NilOptions]

(* The lookup: the exact key first, the wildcard only when it is unknown. *)
lookup_part000(m, origin) ==
    LET knownOrigin == origin \in DOMAIN m
        allOriginsAllowed == ~knownOrigin /\ AllOrigins \in DOMAIN m
    IN [knownOrigin |-> knownOrigin,
        allOriginsAllowed |-> allOriginsAllowed,
        opts |-> IF knownOrigin THEN m[origin]
                 ELSE IF allOriginsAllowed THEN m[AllOrigins]
                 ELSE NilOptions]

(* Mutant: the wildcard is written in place of the request's origin. *)
setHeaders_part000_literalWildcard(w, origin, opts) ==
    LET w1 == HeaderSet(w, headerAllowOrigin, AllOrigins)
        w3 == IF ~opts.nil /\ opts.CredentialsAllowed
              THEN HeaderSet(w1, headerAllowCredentials, "true") ELSE w1
        w4 == IF ~opts.nil /\ Len(opts.ExposedHeaders) > 0
              THEN HeaderSet(w3, headerExposeHeaders, Join(opts.ExposedHeaders, ", "))
              ELSE w3
    IN IF ~opts.nil /\ opts.MaxAge # 0
       THEN HeaderSet(w4, headerMaxAge, FormatSeconds(opts.MaxAge))
       ELSE w4

(* The headers of every CORS response. *)
setHeaders_part000(w, origin, opts) ==
    LET w1 == HeaderSet(w, headerAllowOrigin, origin)
        w2 == HeaderSet(w1, headerVary, "Origin")
        w3 == IF ~opts.nil /\ opts.CredentialsAllowed
              THEN HeaderSet(w2, headerAllowCredentials, "true") ELSE w2
        w4 == IF ~opts.nil /\ Len(opts.ExposedHeaders) > 0
              THEN HeaderSet(w3, headerExposeHeaders, Join(opts.ExposedHeaders, ", "))
              ELSE w3
    IN IF ~opts.nil /\ opts.MaxAge # 0
       THEN HeaderSet(w4, headerMaxAge, FormatSeconds(opts.MaxAge))
       ELSE w4

(* Mutant: the allowed-headers branch tests the allowed-methods list. *)
preflight_part000_headersByMethods(w, r, opts) ==
    LET w1 == IF ~opts.nil /\ Len(opts.AllowedMethods) > 0
              THEN HeaderSet(w, headerAllowHeaders, Join(opts.AllowedHeaders, ", "))
              ELSE HeaderSet(w, headerAllowHeaders, r.RequestHeaders)
        w2 == IF ~opts.nil /\ Len(opts.AllowedHeaders) > 0
              THEN HeaderSet(w1, headerAllowMethods, Join(opts.AllowedMethods, ", "))
              ELSE HeaderSet(w1, headerAllowMethods, r.RequestMethod)
    IN WriteHeader(w2, StatusOK)

(* The headers of a preflight response. *)
preflight_part000(w, r, opts) ==
    LET w1 == IF ~opts.nil /\ Len(opts.AllowedHeaders) > 0
              THEN HeaderSet(w, headerAllowHeaders, Join(opts.AllowedHeaders, ", "))
              ELSE HeaderSet(w, headerAllowHeaders, r.RequestHeaders)
        w2 == IF ~opts.nil /\ Len(opts.AllowedHeaders) > 0
              THEN HeaderSet(w1, headerAllowMethods, Join(opts.AllowedMethods, ", "))
              ELSE HeaderSet(w1, headerAllowMethods, r.RequestMethod)
    IN WriteHeader(w2, StatusOK)

(* Mutant: the test for a missing Origin is left out. *)
setCORS_part000_noOriginCheck(w, r, origins) ==
    LET origin == r.Origin
        found == lookup_part000(effectiveOrigins_part000(origins), origin)
    IN IF ~found.knownOrigin /\ ~found.allOriginsAllowed
       THEN httpError(w, "Forbidden CORS request", StatusForbidden)
       ELSE LET w1 == setHeaders_part000(w, origin, found.opts)
            IN IF r.Method # "OPTIONS" THEN CallHandler(w1)
               ELSE preflight_part000(w1, r, found.opts)

(* Mutant: the handler is called before the headers are set. *)
setCORS_part000_handlerFirst(w, r, origins) ==
    LET origin == r.Origin
        found == lookup_part000(effectiveOrigins_part000(origins), origin)
    IN IF origin = "" THEN CallHandler(w)
       ELSE IF ~found.knownOrigin /\ ~found.allOriginsAllowed
       THEN httpError(w, "Forbidden CORS request", StatusForbidden)
       ELSE IF r.Method # "OPTIONS"
       THEN setHeaders_part000(CallHandler(w), origin, found.opts)
       ELSE preflight_part000(setHeaders_part000(w, origin, found.opts), r, found.opts)

(* Mutant: the handler is called for a preflight request too. *)
setCORS_part000_fallthrough(w, r, origins) ==
    LET origin == r.Origin
        found == lookup_part000(effectiveOrigins_part000(origins), origin)
    IN IF origin = "" THEN CallHandler(w)
       ELSE IF ~found.knownOrigin /\ ~found.allOriginsAllowed
       THEN httpError(w, "Forbidden CORS request", StatusForbidden)
       ELSE LET w1 == setHeaders_part000(w, origin, found.opts)
            IN IF r.Method # "OPTIONS" THEN CallHandler(w1)
               ELSE CallHandler(preflight_part000(w1, r, found.opts))

setCORS_part000(w, r, origins) ==
    LET origin == r.Origin
        found == lookup_part000(effectiveOrigins_part000(origins), origin)
    IN IF origin = "" THEN CallHandler(w)
       ELSE IF ~found.knownOrigin /\ ~found.allOriginsAllowed
       THEN httpError(w, "Forbidden CORS request", StatusForbidden)
       ELSE LET w1 == setHeaders_part000(w, origin, found.opts)
            IN IF r.Method # "OPTIONS" THEN CallHandler(w1)
               ELSE preflight_part000(w1, r, found.opts)

----------------------------------------------------------------------------
(* Revision handler_v2 (src/handler.go, second package clause). *)

setCORS_handlerV2(w, r, origins) ==
    LET origin == r.Origin
        m == IF origins.isNil \/ DOMAIN origins.m = {}
             THEN [k \in {AllOrigins} |-> NilOptions]
             ELSE origins.m
        knownOrigin == origin \in DOMAIN m
        allOriginsAllowed == ~knownOrigin /\ AllOrigins \in DOMAIN m
        opts == IF knownOrigin THEN m[origin]
                ELSE IF allOriginsAllowed THEN m[AllOrigins]
                ELSE NilOptions
        w1 == HeaderSet(w, "Access-Control-Allow-Origin", origin)
        w2 == HeaderSet(w1, "Vary", "Origin")
        w3 == IF ~opts.nil /\ opts.CredentialsAllowed
              THEN HeaderSet(w2, "Access-Control-Allow-Credentials", "true") ELSE w2
        w4 == IF ~opts.nil /\ Len(opts.ExposedHeaders) > 0
              THEN HeaderSet(w3, "Access-Control-Expose-Headers",
                             Join(opts.ExposedHeaders, ", "))
              ELSE w3
        w5 == IF ~opts.nil /\ opts.MaxAge # 0
              THEN HeaderSet(w4, "Access-Control-Max-Age", FormatSeconds(opts.MaxAge))
              ELSE w4
        w6 == IF ~opts.nil /\ Len(opts.AllowedHeaders) > 0
              THEN HeaderSet(w5, "Access-Control-Allow-Headers",
                             Join(opts.AllowedHeaders, ", "))
              ELSE HeaderSet(w5, "Access-Control-Allow-Headers", r.RequestHeaders)
        w7 == IF ~opts.nil /\ Len(opts.AllowedHeaders) > 0
              THEN HeaderSet(w6, "Access-Control-Allow-Methods",
                             Join(opts.AllowedMethods, ", "))
              ELSE HeaderSet(w6, "Access-Control-Allow-Methods", r.RequestMethod)
    IN IF origin = "" THEN CallHandler(w)
       ELSE IF ~knownOrigin /\ ~allOriginsAllowed
       THEN httpError(w, "Invalid CORS request", StatusForbidden)
       ELSE IF r.Method # "OPTIONS" THEN CallHandler(w5)
       ELSE WriteHeader(w7, StatusOK)

----------------------------------------------------------------------------
(* formattedOptions: five *string fields.  A *string is nil, or points to  *)
(* a string.                                                               *)

NilString == [nil |-> TRUE, s |-> ""]

StringPtr(s) == [nil |-> FALSE, s |-> s]

ZeroFormattedOptions ==
    [AllowedHeaders |-> NilString, AllowedMethods |-> NilString,
     CredentialsAllowed |-> NilString, ExposedHeaders |-> NilString,
     MaxAge |-> NilString]

NilDereference == "runtime error: invalid memory address or nil pointer dereference"

WildcardCredentials ==
    "sending credentials via CORS is not permitted for wildcarded origins"

(* The statement `if cond { *p = s }`: storing through a nil pointer       *)
(* panics, through any other pointer it changes the string pointed to.     *)
StoreIf(cond, p, s) ==
    IF ~cond THEN [panic |-> FALSE, ptr |-> p]
    ELSE IF p.nil THEN [panic |-> TRUE, ptr |-> p]
    ELSE [panic |-> FALSE, ptr |-> StringPtr(s)]

NoFormatted == [k \in {} |-> ZeroFormattedOptions]

(* The items of a map argument (a nil map has none). *)
Items(opt) == IF opt.isNil THEN EmptyMap ELSE opt.m

----------------------------------------------------------------------------
(* Revision handler_v1 (src/handler.go, first package clause). *)

(* The body of formatCORS's loop for one item. *)
formatItem_handlerV1(item) ==
    LET result == ZeroFormattedOptions
        ah == StoreIf(Len(item.AllowedHeaders) > 0, result.AllowedHeaders,
                      Join(item.AllowedHeaders, ", "))
        am == StoreIf(Len(item.AllowedMethods) > 0, result.AllowedMethods,
                      Join(item.AllowedMethods, ", "))
        ca == StoreIf(item.CredentialsAllowed, result.CredentialsAllowed, "true")
        eh == StoreIf(Len(item.ExposedHeaders) > 0, result.ExposedHeaders,
                      Join(item.ExposedHeaders, ", "))
        ma == StoreIf(2 * item.MaxAge > Second, result.MaxAge,
                      FormatSeconds(item.MaxAge))
    IN [panic |-> ah.panic \/ am.panic \/ ca.panic \/ eh.panic \/ ma.panic,
        result |-> [AllowedHeaders |-> ah.ptr, AllowedMethods |-> am.ptr,
                    CredentialsAllowed |-> ca.ptr, ExposedHeaders |-> eh.ptr,
                    MaxAge |-> ma.ptr]]

formatCORS_handlerV1(opt) ==
    LET items == Items(opt)
    IN IF AllOrigins \in DOMAIN items /\ items[AllOrigins].CredentialsAllowed
       THEN [panic |-> WildcardCredentials, fmtOpt |-> NoFormatted]
       ELSE IF \E origin \in DOMAIN items : formatItem_handlerV1(items[origin]).panic
       THEN [panic |-> NilDereference, fmtOpt |-> NoFormatted]
       ELSE [panic |-> "",
             fmtOpt |-> [origin \in DOMAIN items |->
                            formatItem_handlerV1(items[origin]).result]]

(* `wildcard` is assigned in setCORS without a declaration; it is read     *)
(* here as the boolean local the assignments treat it as.                  *)
setCORS_handlerV1(w, r, fmtOpts) ==
    LET origin == r.Origin
        ok == origin \in DOMAIN fmtOpts
        wildcard == ~ok /\ "*" \in DOMAIN fmtOpts
        fmtOpt == IF ok THEN fmtOpts[origin]
                  ELSE IF wildcard THEN fmtOpts["*"]
                  ELSE ZeroFormattedOptions
        w1 == HeaderSet(w, headerAllowOrigin, origin)
        w2 == IF wildcard THEN HeaderSet(w1, "Vary", "Origin") ELSE w1
        w3 == IF ~fmtOpt.CredentialsAllowed.nil
              THEN HeaderSet(w2, headerAllowCredentials, fmtOpt.CredentialsAllowed.s)
              ELSE w2
        w4 == IF ~fmtOpt.ExposedHeaders.nil
              THEN HeaderSet(w3, headerExposeHeaders, fmtOpt.ExposedHeaders.s)
              ELSE w3
        w5 == IF ~fmtOpt.MaxAge.nil
              THEN HeaderSet(w4, headerMaxAge, fmtOpt.MaxAge.s)
              ELSE w4
        w6 == IF fmtOpt.AllowedHeaders.nil
              THEN HeaderSet(w5, headerAllowHeaders, r.RequestHeaders)
              ELSE HeaderSet(w5, headerAllowHeaders, fmtOpt.AllowedHeaders.s)
        w7 == IF fmtOpt.AllowedMethods.nil
              THEN HeaderSet(w6, headerAllowMethods, r.RequestMethod)
              ELSE HeaderSet(w6, headerAllowMethods, fmtOpt.AllowedMethods.s)
    IN IF origin = "" THEN CallHandler(w)
       ELSE IF ~ok /\ ~wildcard
       THEN httpError(w, "Invalid CORS request", StatusForbidden)
       ELSE IF r.Method # "OPTIONS" THEN CallHandler(w5)
       ELSE WriteHeader(w7, StatusOK)

----------------------------------------------------------------------------
(* Revision part_001. *)

formatItem_part001(item) ==
    LET result == ZeroFormattedOptions
        ah == StoreIf(Len(item.AllowedHeaders) > 0, result.AllowedHeaders,
                      Join(item.AllowedHeaders, ", "))
        am == StoreIf(Len(item.AllowedMethods) > 0, result.AllowedMethods,
                      Join(item.AllowedMethods, ", "))
        ca == StoreIf(item.CredentialsAllowed, result.CredentialsAllowed, "true")
        eh == StoreIf(Len(item.ExposedHeaders) > 0, result.ExposedHeaders,
                      Join(item.ExposedHeaders, ", "))
        ma == StoreIf(2 * item.MaxAge > Second, result.MaxAge,
                      FormatSeconds(item.MaxAge))
    IN [panic |-> ah.panic \/ am.panic \/ ca.panic \/ eh.panic \/ ma.panic,
        result |-> [AllowedHeaders |-> ah.ptr, AllowedMethods |-> am.ptr,
                    CredentialsAllowed |-> ca.ptr, ExposedHeaders |-> eh.ptr,
                    MaxAge |-> ma.ptr]]

formatCORS_part001(opt) ==
    LET items == Items(opt)
    IN IF \E origin \in DOMAIN items : formatItem_part001(items[origin]).panic
       THEN [panic |-> NilDereference, fmtOpt |-> NoFormatted]
       ELSE [panic |-> "",
             fmtOpt |-> [origin \in DOMAIN items |->
                            formatItem_part001(items[origin]).result]]

setCORS_part001(w, r, fmtOpts) ==
    LET origin == r.Origin
        knownOrigin == origin \in DOMAIN fmtOpts
        allOriginsAllowed == ~knownOrigin /\ AllOrigins \in DOMAIN fmtOpts
        fmtOpt == IF knownOrigin THEN fmtOpts[origin]
                  ELSE IF allOriginsAllowed THEN fmtOpts[AllOrigins]
                  ELSE ZeroFormattedOptions
        w1 == HeaderSet(w, headerAllowOrigin, origin)
        w2 == HeaderSet(w1, "Vary", "Origin")
        w3 == IF ~fmtOpt.CredentialsAllowed.nil
              THEN HeaderSet(w2, headerAllowCredentials, fmtOpt.CredentialsAllowed.s)
              ELSE w2
        w4 == IF ~fmtOpt.ExposedHeaders.nil
              THEN HeaderSet(w3, headerExposeHeaders, fmtOpt.ExposedHeaders.s)
              ELSE w3
        w5 == IF ~fmtOpt.MaxAge.nil
              THEN HeaderSet(w4, headerMaxAge, fmtOpt.MaxAge.s)
              ELSE w4
        w6 == IF fmtOpt.AllowedHeaders.nil
              THEN HeaderSet(w5, headerAllowHeaders, r.RequestHeaders)
              ELSE HeaderSet(w5, headerAllowHeaders, fmtOpt.AllowedHeaders.s)
        w7 == IF fmtOpt.AllowedMethods.nil
              THEN HeaderSet(w6, headerAllowMethods, r.RequestMethod)
              ELSE HeaderSet(w6, headerAllowMethods, fmtOpt.AllowedMethods.s)
    IN IF origin = "" THEN CallHandler(w)
       ELSE IF ~knownOrigin /\ ~allOriginsAllowed
       THEN httpError(w, "Invalid CORS request", StatusForbidden)
       ELSE IF r.Method = "OPTIONS" THEN WriteHeader(w7, StatusOK)
       ELSE CallHandler(w5)

----------------------------------------------------------------------------
(* Revision doc (src/doc.go, second package clause). *)

formatItem_doc(item) ==
    LET opts == IF item.nil THEN ZeroOptions ELSE item
        fmtOpts == ZeroFormattedOptions
        ah == StoreIf(Len(opts.AllowedHeaders) > 0, fmtOpts.AllowedHeaders,
                      Join(opts.AllowedHeaders, ", "))
        am == StoreIf(Len(opts.AllowedMethods) > 0, fmtOpts.AllowedMethods,
                      Join(opts.AllowedMethods, ", "))
        ca == StoreIf(opts.CredentialsAllowed, fmtOpts.CredentialsAllowed, "true")
        eh == StoreIf(Len(opts.ExposedHeaders) > 0, fmtOpts.ExposedHeaders,
                      Join(opts.ExposedHeaders, ", "))
        ma == StoreIf(opts.MaxAge # 0, fmtOpts.MaxAge, FormatSeconds(opts.MaxAge))
    IN [panic |-> ah.panic \/ am.panic \/ ca.panic \/ eh.panic \/ ma.panic,
        result |-> [AllowedHeaders |-> ah.ptr, AllowedMethods |-> am.ptr,
                    CredentialsAllowed |-> ca.ptr, ExposedHeaders |-> eh.ptr,
                    MaxAge |-> ma.ptr]]

formatCORS_doc(origins) ==
    LET items == IF origins.isNil \/ DOMAIN origins.m = {}
                 THEN [k \in {AllOrigins} |-> NilOptions]
                 ELSE origins.m
    IN IF \E origin \in DOMAIN items : formatItem_doc(items[origin]).panic
       THEN [panic |-> NilDereference, fmtOpt |-> NoFormatted]
       ELSE [panic |-> "",
             fmtOpt |-> [origin \in DOMAIN items |->
                            formatItem_doc(items[origin]).result]]

setCORS_doc(w, r, fmtOrigins) ==
    LET origin == r.Origin
        knownOrigin == origin \in DOMAIN fmtOrigins
        allOriginsAllowed == ~knownOrigin /\ AllOrigins \in DOMAIN fmtOrigins
        fmtOpts == IF knownOrigin THEN fmtOrigins[origin]
                   ELSE IF allOriginsAllowed THEN fmtOrigins[AllOrigins]
                   ELSE ZeroFormattedOptions
        w1 == HeaderSet(w, headerAllowOrigin, origin)
        w2 == HeaderSet(w1, "Vary", "Origin")
        w3 == IF ~fmtOpts.CredentialsAllowed.nil
              THEN HeaderSet(w2, headerAllowCredentials, fmtOpts.CredentialsAllowed.s)
              ELSE w2
        w4 == IF ~fmtOpts.ExposedHeaders.nil
              THEN HeaderSet(w3, headerExposeHeaders, fmtOpts.ExposedHeaders.s)
              ELSE w3
        w5 == IF ~fmtOpts.MaxAge.nil
              THEN HeaderSet(w4, headerMaxAge, fmtOpts.MaxAge.s)
              ELSE w4
        w6 == IF fmtOpts.AllowedHeaders.nil
              THEN HeaderSet(w5, headerAllowHeaders, r.RequestHeaders)
              ELSE HeaderSet(w5, headerAllowHeaders, fmtOpts.AllowedHeaders.s)
        w7 == IF fmtOpts.AllowedMethods.nil
              THEN HeaderSet(w6, headerAllowMethods, r.RequestMethod)
              ELSE HeaderSet(w6, headerAllowMethods, fmtOpts.AllowedMethods.s)
    IN IF origin = "" THEN CallHandler(w)
       ELSE IF ~knownOrigin /\ ~allOriginsAllowed
       THEN httpError(w, "Invalid CORS request", StatusForbidden)
       ELSE IF r.Method = "OPTIONS" THEN WriteHeader(w7, StatusOK)
       ELSE CallHandler(w5)

----------------------------------------------------------------------------
(* The revision's formatCORS and setCORS. *)

formatCORS(r, origins) ==
    CASE r = "handler_v1" -> formatCORS_handlerV1(origins)
      [] r = "part_001" -> formatCORS_part001(origins)
      [] r = "doc" -> formatCORS_doc(origins)

(* setCORS of a formatting revision, on the compiled map. *)
setCORSFormatted(r, w, req, fmtOpts) ==
    CASE r = "handler_v1" -> setCORS_handlerV1(w, req, fmtOpts)
      [] r = "part_001" -> setCORS_part001(w, req, fmtOpts)
      [] r = "doc" -> setCORS_doc(w, req, fmtOpts)

(* setCORS of a revision that reads the *OriginsMap itself. *)
setCORSRaw(r, w, req, origins) ==
    CASE r = "handler_v2" -> setCORS_handlerV2(w, req, origins)
      [] r = "part_000" -> setCORS_part000(w, req, origins)

(* What Use and LocalUse do with their argument before any request is     *)
(* read: formatCORS in a formatting revision, nothing in the others.       *)
compile(r, origins) ==
    IF r \in FormattingRevisions
    THEN formatCORS(r, origins)
    ELSE [panic |-> "", fmtOpt |-> NoFormatted]

(* The response setCORS writes for a request, given the policy argument    *)
(* and what compile made of it.                                            *)
respond(r, req, origins, fmtOpt) ==
    IF r \in FormattingRevisions
    THEN setCORSFormatted(r, NewResponse, req, fmtOpt)
    ELSE setCORSRaw(r, NewResponse, req, origins)

(* setCORS of the revision on a response writer that upstream handlers     *)
(* may have written to already.                                            *)
respondOn(r, w, req, origins, fmtOpt) ==
    IF r \in FormattingRevisions
    THEN setCORSFormatted(r, w, req, fmtOpt)
    ELSE setCORSRaw(r, w, req, origins)

----------------------------------------------------------------------------
(* The state machine.                                                      *)
(*   global   the handler cors.Use put on the stack: the policy given and, *)
(*            in a formatting revision, the compiled map it closes over    *)
(*   crashed  the panic value, once a call has panicked ("" before)        *)
(*   eval     the request being handled: the entry point, the policy it    *)
(*            was given, the request and the response written so far       *)

NoGlobal == [present |-> FALSE, origins |-> NilPolicy, fmtOpt |-> NoFormatted]

NoRequest ==
    [Origin |-> "", Method |-> "", RequestHeaders |-> "", RequestMethod |-> ""]

Idle ==
    [entry |-> "idle", origins |-> NilPolicy, request |-> NoRequest,
     response |-> NewResponse]

(* No request runs through the handlers stack. *)
NoRun ==
    [state |-> "idle", request |-> NoRequest, response |-> NewResponse, pos |-> 0]

(* The concurrent requests (the goroutines of the server). *)
Procs == {1, 2}

NoProc ==
    [pc |-> "idle", request |-> NoRequest, response |-> NewResponse,
     local |-> "shared"]

Init ==
    /\ rev \in Revisions
    /\ global = NoGlobal
    /\ crashed = ""
    /\ eval = Idle
    /\ stack = <<>>
    /\ run = NoRun
    /\ procs = [p \in Procs |-> NoProc]

(* cors.Use in handler_v2 and part_000: the handler closes over origins. *)
UseRaw ==
    /\ rev \notin FormattingRevisions
    /\ crashed = ""
    /\ ~global.present
    /\ eval = Idle
    /\ \E origins \in PoliciesOf(rev) :
          global' = [present |-> TRUE, origins |-> origins, fmtOpt |-> NoFormatted]
    /\ UNCHANGED <<rev, crashed, eval, otherVars>>

(* cors.Use in handler_v1, part_001 and doc: formatCORS runs first, and a  *)
(* panic in it leaves no handler on the stack.                             *)
UseFormatted ==
    /\ rev \in FormattingRevisions
    /\ crashed = ""
    /\ ~global.present
    /\ eval = Idle
    /\ \E origins \in PoliciesOf(rev) :
          LET compiled == compile(rev, origins)
          IN IF compiled.panic # ""
             THEN /\ crashed' = compiled.panic
                  /\ UNCHANGED global
             ELSE /\ global' = [present |-> TRUE, origins |-> origins,
                                fmtOpt |-> compiled.fmtOpt]
                  /\ UNCHANGED crashed
    /\ UNCHANGED <<rev, eval, otherVars>>

(* A request reaches the global handler: setCORS(c, ..., c.Next). *)
Serve ==
    /\ crashed = ""
    /\ global.present
    /\ eval = Idle
    /\ \E r \in Requests :
          eval' = [entry |-> "Use", origins |-> global.origins, request |-> r,
                   response |-> respond(rev, r, global.origins, global.fmtOpt)]
    /\ UNCHANGED <<rev, global, crashed, otherVars>>

(* cors.LocalUse(c, origins, handler) in a handler of a stack that holds   *)
(* no global CORS handler: formatCORS (where the revision has it), then    *)
(* setCORS with the local handler.  A panic in formatCORS leaves the       *)
(* response untouched.                                                     *)
LocalUse ==
    /\ crashed = ""
    /\ ~global.present
    /\ eval = Idle
    /\ \E r \in Requests, origins \in PoliciesOf(rev) :
          LET compiled == compile(rev, origins)
          IN /\ crashed' = compiled.panic
             /\ eval' = [entry |-> "LocalUse", origins |-> origins, request |-> r,
                         response |->
                             IF compiled.panic # "" THEN NewResponse
                             ELSE respond(rev, r, origins, compiled.fmtOpt)]
    /\ UNCHANGED <<rev, global, otherVars>>

(* The response has been sent; the next request finds a new context. *)
Finish ==
    /\ crashed = ""
    /\ eval # Idle
    /\ eval' = Idle
    /\ UNCHANGED <<rev, global, crashed, otherVars>>

(* Policies of one entry whose only option is a max-age, from negative    *)
(* through sub-second to whole seconds.                                    *)
AgeDurations == {q * (Second \div 4) : q \in (0 - MaxAgeQuarters)..MaxAgeQuarters}

AgePolicies ==
    {[isNil |-> FALSE, m |-> [k \in {key} |-> Options(<<>>, <<>>, FALSE, <<>>, d)]] :
        key \in PolicyKeys, d \in AgeDurations}

(* cors.LocalUse with a policy of AgePolicies. *)
LocalUseAge ==
    /\ crashed = ""
    /\ ~global.present
    /\ eval = Idle
    /\ \E r \in Requests, origins \in AgePolicies :
          LET compiled == compile(rev, origins)
          IN /\ crashed' = compiled.panic
             /\ eval' = [entry |-> "LocalUse", origins |-> origins, request |-> r,
                         response |->
                             IF compiled.panic # "" THEN NewResponse
                             ELSE respond(rev, r, origins, compiled.fmtOpt)]
    /\ UNCHANGED <<rev, global, otherVars>>

NextAge ==
    \/ LocalUseAge
    \/ Finish

(* The handler under policies that differ in their max-age only. *)
SpecAge == Init /\ [][NextAge]_vars

(* The handlers stack of core, with several CORS handlers on it.           *)
(*   stack  the handlers in the order of their installation: a cors.Use    *)
(*          handler with the policy it closes over, or a handler whose     *)
(*          body is a call of cors.LocalUse                                *)
(*   run    the request going down the stack: the response writer shared   *)
(*          by all the handlers, and the index of the handler it is at     *)

(* The most handlers on the stack. *)
MaxStack == 2

(* A rule that sets every field. *)
RichOptions ==
    Options(SubSeq(HeaderNames, 1, MaxLen), SubSeq(MethodNames, 1, MaxLen), TRUE,
            SubSeq(ExposeNames, 1, MaxLen), MaxAgeSeconds * Second)

ChainPolicies == Policies({ZeroOptions, RichOptions})

(* cors.Use(origins) once more: core.Use appends the handler to the stack; *)
(* in a formatting revision formatCORS runs first and may panic.           *)
ChainUse ==
    /\ crashed = ""
    /\ run = NoRun
    /\ Len(stack) < MaxStack
    /\ \A i \in DOMAIN stack : stack[i].kind = "Use"
    /\ \E origins \in ChainPolicies :
          LET compiled == compile(rev, origins)
          IN IF compiled.panic # ""
             THEN /\ crashed' = compiled.panic
                  /\ UNCHANGED stack
             ELSE /\ stack' = Append(stack, [kind |-> "Use", origins |-> origins,
                                              fmtOpt |-> compiled.fmtOpt])
                  /\ UNCHANGED crashed
    /\ UNCHANGED <<rev, global, eval, run, procs>>

(* core.Use of a handler whose body is cors.LocalUse(c, origins, handler): *)
(* the last handler of the stack.                                          *)
ChainLocalUse ==
    /\ crashed = ""
    /\ run = NoRun
    /\ Len(stack) < MaxStack
    /\ \A i \in DOMAIN stack : stack[i].kind = "Use"
    /\ \E origins \in ChainPolicies :
          stack' = Append(stack, [kind |-> "LocalUse", origins |-> origins,
                                  fmtOpt |-> NoFormatted])
    /\ UNCHANGED <<rev, global, crashed, eval, run, procs>>

(* A request enters the stack at its first handler. *)
ChainServe ==
    /\ crashed = ""
    /\ run = NoRun
    /\ stack # <<>>
    /\ \E r \in Requests :
          run' = [state |-> "running", request |-> r, response |-> NewResponse,
                  pos |-> 1]
    /\ UNCHANGED <<rev, global, crashed, eval, stack, procs>>

(* Where the request is once the handler at run.pos has returned: the next *)
(* handler if c.Next (or the local handler) was called, else nowhere.      *)
after(w, w2) ==
    IF w2.handlerCalls = w.handlerCalls THEN "stopped"
    ELSE IF run.pos = Len(stack) THEN "downstream"
    ELSE "running"

(* The cors.Use handler at run.pos: setCORS(c, origins, c.Next) on the     *)
(* response writer of the context.                                         *)
ChainStepUse ==
    /\ crashed = ""
    /\ run.state = "running"
    /\ stack[run.pos].kind = "Use"
    /\ LET h == stack[run.pos]
           w2 == respondOn(rev, run.response, run.request, h.origins, h.fmtOpt)
       IN run' = [run EXCEPT !.response = w2, !.pos = @ + 1,
                             !.state = after(run.response, w2)]
    /\ UNCHANGED <<rev, global, crashed, eval, stack, procs>>

(* The handler at run.pos calls cors.LocalUse: formatCORS (where the       *)
(* revision has it) and setCORS with the local handler.                    *)
ChainStepLocalUse ==
    /\ crashed = ""
    /\ run.state = "running"
    /\ stack[run.pos].kind = "LocalUse"
    /\ LET h == stack[run.pos]
           compiled == compile(rev, h.origins)
           w2 == respondOn(rev, run.response, run.request, h.origins,
                           compiled.fmtOpt)
       IN IF compiled.panic # ""
          THEN /\ crashed' = compiled.panic
               /\ UNCHANGED run
          ELSE /\ run' = [run EXCEPT !.response = w2, !.pos = @ + 1,
                                     !.state = after(run.response, w2)]
               /\ UNCHANGED crashed
    /\ UNCHANGED <<rev, global, eval, stack, procs>>

(* The response has been sent. *)
ChainFinish ==
    /\ crashed = ""
    /\ run.state \in {"stopped", "downstream"}
    /\ run' = NoRun
    /\ UNCHANGED <<rev, global, crashed, eval, stack, procs>>

NextChain ==
    \/ ChainUse
    \/ ChainLocalUse
    \/ ChainServe
    \/ ChainStepUse
    \/ ChainStepLocalUse
    \/ ChainFinish

SpecChain == Init /\ [][NextChain]_vars

(* Requests served concurrently by one cors.Use handler: every request    *)
(* runs setCORS in its own goroutine, and all of them close over the       *)
(* same origins (the same compiled map in a formatting revision).          *)
(*   procs  per goroutine: where it is in setCORS (entered: nothing read   *)
(*          yet; bound: past the nil-or-empty test, before the lookup;     *)
(*          done: response written), its request, its response, and what   *)
(*          its parameter origins points to (the shared policy, or the     *)
(*          fresh {AllOrigins: nil} it was rebound to)                     *)

ConcRequests ==
    [Origin : {"", KnownOrigin, OtherOrigin},
     Method : {"GET", "OPTIONS"},
     RequestHeaders : {""},
     RequestMethod : {""}]

(* The revisions whose setCORS substitutes the default for a nil or empty  *)
(* policy on every request.                                                *)
SubstitutingRevisions == {"handler_v2", "part_000"}

(* The map literal of the substitution. *)
DefaultPolicy == [isNil |-> FALSE, m |-> [k \in {AllOrigins} |-> NilOptions]]

(* Mutant: the default is stored through the pointer, into the map the     *)
(* handler closes over.                                                    *)
sharedAfterSubstitute_writeThrough(origins) ==
    IF origins.isNil THEN origins ELSE DefaultPolicy

(* The policy the handler closes over, after a request found it nil or     *)
(* empty: origins = &OriginsMap{AllOrigins: nil} assigns to the parameter  *)
(* of this call, so what the closure holds stays as it is.                 *)
sharedAfterSubstitute(origins) == origins

(* What the parameter origins of goroutine p points to. *)
LocalPolicy(p) ==
    IF procs[p].local = "fresh" THEN DefaultPolicy ELSE global.origins

(* cors.Use, with a policy of the small domain. *)
ConcUse ==
    /\ crashed = ""
    /\ ~global.present
    /\ \E origins \in ChainPolicies :
          LET compiled == compile(rev, origins)
          IN IF compiled.panic # ""
             THEN /\ crashed' = compiled.panic
                  /\ UNCHANGED global
             ELSE /\ global' = [present |-> TRUE, origins |-> origins,
                                fmtOpt |-> compiled.fmtOpt]
                  /\ UNCHANGED crashed
    /\ UNCHANGED <<rev, eval, stack, run, procs>>

(* A request arrives and its goroutine enters setCORS. *)
ConcServe ==
    /\ crashed = ""
    /\ global.present
    /\ \E p \in Procs, r \in ConcRequests :
          /\ procs[p].pc = "idle"
          /\ procs' = [procs EXCEPT ![p] = [pc |-> "entered", request |-> r,
                                             response |-> NewResponse,
                                             local |-> "shared"]]
    /\ UNCHANGED <<rev, global, crashed, eval, stack, run>>

(* From the entry of setCORS to the lookup: a request without Origin calls *)
(* the handler and returns; otherwise, in a substituting revision, a nil   *)
(* or empty policy makes the parameter point to the default.               *)
ConcBind ==
    /\ crashed = ""
    /\ \E p \in Procs :
          /\ procs[p].pc = "entered"
          /\ IF procs[p].request.Origin = ""
             THEN /\ procs' = [procs EXCEPT
                        ![p].pc = "done",
                        ![p].response = respondOn(rev, NewResponse, procs[p].request,
                                                  global.origins, global.fmtOpt)]
                  /\ UNCHANGED global
             ELSE IF /\ rev \in SubstitutingRevisions
                     /\ global.origins.isNil \/ DOMAIN global.origins.m = {}
             THEN /\ procs' = [procs EXCEPT ![p].pc = "bound", ![p].local = "fresh"]
                  /\ global' = [global EXCEPT
                        !.origins = sharedAfterSubstitute(global.origins)]
             ELSE /\ procs' = [procs EXCEPT ![p].pc = "bound"]
                  /\ UNCHANGED global
    /\ UNCHANGED <<rev, crashed, eval, stack, run>>

(* The lookup and everything after it, on what origins points to now. *)
ConcEvaluate ==
    /\ crashed = ""
    /\ \E p \in Procs :
          /\ procs[p].pc = "bound"
          /\ procs' = [procs EXCEPT
                ![p].pc = "done",
                ![p].response = respondOn(rev, NewResponse, procs[p].request,
                                          LocalPolicy(p), global.fmtOpt)]
    /\ UNCHANGED <<rev, global, crashed, eval, stack, run>>

(* The response has been sent and the goroutine ends. *)
ConcFinish ==
    /\ crashed = ""
    /\ \E p \in Procs :
          /\ procs[p].pc = "done"
          /\ procs' = [procs EXCEPT ![p] = NoProc]
    /\ UNCHANGED <<rev, global, crashed, eval, stack, run>>

NextConc ==
    \/ ConcUse
    \/ ConcServe
    \/ ConcBind
    \/ ConcEvaluate
    \/ ConcFinish

SpecConc == Init /\ [][NextConc]_vars

Next ==
    \/ UseRaw
    \/ UseFormatted
    \/ Serve
    \/ LocalUse
    \/ Finish

Spec == Init /\ [][Next]_vars

----------------------------------------------------------------------------
(* Vocabulary of the properties. *)

(* setCORS has run for the request in eval. *)
Evaluated == eval.entry # "idle" /\ crashed = ""

Request == eval.request

Response == eval.response

Written(h) == h \in DOMAIN Response.headers

(* The keys of a policy argument. *)
Keys(p) == IF p.isNil THEN {} ELSE DOMAIN p.m

(* The origin is a key of the policy, or the policy has the wildcard key. *)
Resolves(p, origin) == origin \in Keys(p) \/ AllOrigins \in Keys(p)

(* The rule the origin resolves to: the exact key's, else the wildcard's;  *)
(* a nil rule is the rule with every field at its default.                 *)
RuleOf(p, origin) ==
    LET o == IF origin \in Keys(p) THEN p.m[origin] ELSE p.m[AllOrigins]
    IN IF o.nil THEN ZeroOptions ELSE o

(* The policy with only the keys ks. *)
Restrict(p, ks) == [isNil |-> FALSE, m |-> [k \in ks |-> p.m[k]]]

(* The response of the revision to a request under a policy it compiles. *)
ResponseTo(r, req, origins) ==
    respond(r, req, origins, compile(r, origins).fmtOpt)

Continue == Response.handlerCalls = 1 /\ Response.status = 0

StopOK == Response.handlerCalls = 0 /\ Response.status = StatusOK

Reject == Response.handlerCalls = 0 /\ Response.status = StatusForbidden

----------------------------------------------------------------------------
(* C1: whenever a request's Origin resolves to a rule that allows          *)
(* credentials, Access-Control-Allow-Origin is written, equals the         *)
(* request's Origin and is not the literal "*".                            *)
C1_CredentialedOriginNeverWildcard ==
    (/\ Evaluated
     /\ Request.Origin # ""
     /\ Resolves(eval.origins, Request.Origin)
     /\ RuleOf(eval.origins, Request.Origin).CredentialsAllowed)
    => /\ Written(headerAllowOrigin)
       /\ Response.headers[headerAllowOrigin] = Request.Origin
       /\ Response.headers[headerAllowOrigin] # "*"

----------------------------------------------------------------------------
(* C2, as stated: a request whose non-empty Origin is not a key of a       *)
(* policy without wildcard entry is rejected with 403, no CORS header is   *)
(* written and the handler is not called.                                  *)
C2_UnknownOriginRejected ==
    (/\ Evaluated
     /\ Request.Origin # ""
     /\ ~Resolves(eval.origins, Request.Origin))
    => /\ Reject
       /\ DOMAIN Response.headers \cap CORSHeaders = {}

(* C2, amended: the same for a policy that has at least one entry (a nil   *)
(* or empty policy stands for the wildcard entry).                         *)
C2_UnknownOriginRejectedNonEmpty ==
    (/\ Evaluated
     /\ Request.Origin # ""
     /\ Keys(eval.origins) # {}
     /\ ~Resolves(eval.origins, Request.Origin))
    => /\ Reject
       /\ DOMAIN Response.headers \cap CORSHeaders = {}

C2_Witness ==
    /\ Evaluated
    /\ rev = "part_000"
    /\ Keys(eval.origins) = {KnownOrigin}
    /\ Request.Origin = OtherOrigin
    /\ Request.Method = "OPTIONS"
    /\ Response.status = StatusForbidden
    /\ Response.body = "Forbidden CORS request\n"

----------------------------------------------------------------------------
(* C3: when the Origin is a key and the wildcard is one too, the response  *)
(* is the one the policy without its wildcard entry yields, and the        *)
(* credentials and expose headers follow the exact key's rule; when the    *)
(* Origin is no key, the response is the one the wildcard entry alone      *)
(* yields.                                                                 *)
C3_ExactKeyBeforeWildcard ==
    (/\ Evaluated
     /\ Request.Origin # ""
     /\ AllOrigins \in Keys(eval.origins))
    => IF Request.Origin \in Keys(eval.origins)
       THEN /\ Response =
                 ResponseTo(rev, Request, Restrict(eval.origins, {Request.Origin}))
            /\ Written(headerAllowCredentials)
                 <=> eval.origins.m[Request.Origin].CredentialsAllowed
            /\ Written(headerExposeHeaders)
                 <=> Len(eval.origins.m[Request.Origin].ExposedHeaders) > 0
       ELSE Response = ResponseTo(rev, Request, Restrict(eval.origins, {AllOrigins}))

C3_Witness ==
    /\ Evaluated
    /\ rev = "part_000"
    /\ Keys(eval.origins) = {KnownOrigin, AllOrigins}
    /\ Request.Origin = KnownOrigin
    /\ Request.Method = "OPTIONS"
    /\ eval.origins.m[AllOrigins].CredentialsAllowed
    /\ Len(eval.origins.m[AllOrigins].AllowedHeaders) > 0
    /\ ~eval.origins.m[KnownOrigin].nil
    /\ ~eval.origins.m[KnownOrigin].CredentialsAllowed
    /\ Len(eval.origins.m[KnownOrigin].AllowedHeaders) = 0
    /\ ~Written(headerAllowCredentials)
    /\ Response.headers[headerAllowHeaders] = Request.RequestHeaders

----------------------------------------------------------------------------
(* C4: for a request without Origin, whatever the method and the policy,   *)
(* no header and no status is written and the handler is called once.      *)
C4_NoOriginContinues ==
    (Evaluated /\ Request.Origin = "")
    => /\ DOMAIN Response.headers = {}
       /\ Response.status = 0
       /\ Response.handlerCalls = 1
       /\ Response.log = <<"handler">>

C4_Witness ==
    /\ Evaluated
    /\ Request.Origin = ""
    /\ Request.Method = "OPTIONS"
    /\ AllOrigins \in Keys(eval.origins)
    /\ Response.handlerCalls = 1

----------------------------------------------------------------------------
(* C5: a request whose Origin resolves to a rule is answered 200 without   *)
(* calling the handler when its method is OPTIONS; with any other method   *)
(* the handler is called once, no status is written, and neither           *)
(* Access-Control-Allow-Headers nor Access-Control-Allow-Methods is.       *)
(* The same holds of every request with an Origin that is not rejected.    *)
C5_PreflightStopsOthersContinue ==
    (/\ Evaluated
     /\ Request.Origin # ""
     /\ Resolves(eval.origins, Request.Origin) \/ Response.status # StatusForbidden)
    => IF Request.Method = "OPTIONS"
       THEN StopOK
       ELSE /\ Continue
            /\ ~Written(headerAllowHeaders)
            /\ ~Written(headerAllowMethods)

C5_Witness ==
    /\ Evaluated
    /\ rev = "part_000"
    /\ Request.Origin = OtherOrigin
    /\ Request.Method = "OPTIONS"
    /\ Keys(eval.origins) = {KnownOrigin, AllOrigins}
    /\ Response.status = StatusOK
    /\ Response.handlerCalls = 0
    /\ Written(headerAllowMethods)

----------------------------------------------------------------------------
(* C6: on a preflight request whose Origin resolves to a rule,             *)
(* Access-Control-Allow-Methods is the rule's allowed methods joined with  *)
(* ", " when that list is not empty, and the request's                     *)
(* Access-Control-Request-Method when it is empty.                         *)
C6_AllowMethodsFollowsMethodsList ==
    (/\ Evaluated
     /\ Request.Origin # ""
     /\ Request.Method = "OPTIONS"
     /\ Resolves(eval.origins, Request.Origin))
    => /\ Written(headerAllowMethods)
       /\ Response.headers[headerAllowMethods] =
             IF Len(RuleOf(eval.origins, Request.Origin).AllowedMethods) > 0
             THEN Join(RuleOf(eval.origins, Request.Origin).AllowedMethods, ", ")
             ELSE Request.RequestMethod

----------------------------------------------------------------------------
(* C7: on a preflight request that is not rejected,                        *)
(* Access-Control-Allow-Headers is the request's                           *)
(* Access-Control-Request-Headers when the rule's allowed-headers list is  *)
(* empty, and the list joined with ", " when it is not.                    *)
C7_AllowHeadersEchoOrList ==
    (/\ Evaluated
     /\ Request.Origin # ""
     /\ Request.Method = "OPTIONS"
     /\ Resolves(eval.origins, Request.Origin) \/ Response.status = StatusOK)
    => LET rule == IF Resolves(eval.origins, Request.Origin)
                   THEN RuleOf(eval.origins, Request.Origin)
                   ELSE ZeroOptions
       IN /\ Written(headerAllowHeaders)
          /\ Response.headers[headerAllowHeaders] =
                IF Len(rule.AllowedHeaders) > 0
                THEN Join(rule.AllowedHeaders, ", ")
                ELSE Request.RequestHeaders

C7_Witness ==
    /\ Evaluated
    /\ rev = "part_000"
    /\ Request.Origin = KnownOrigin
    /\ Request.Method = "OPTIONS"
    /\ Request.RequestHeaders = "X-Foo, X-Bar"
    /\ KnownOrigin \in Keys(eval.origins)
    /\ ~eval.origins.m[KnownOrigin].nil
    /\ Len(eval.origins.m[KnownOrigin].AllowedHeaders) = 0
    /\ Len(eval.origins.m[KnownOrigin].AllowedMethods) > 0
    /\ Response.headers[headerAllowHeaders] = "X-Foo, X-Bar"

----------------------------------------------------------------------------
(* The policy pairs the wildcard key with credentials allowed. *)
WildcardWithCredentials(p) ==
    AllOrigins \in Keys(p) /\ p.m[AllOrigins].CredentialsAllowed

(* C8: no policy whose wildcard entry allows credentials is ever           *)
(* installed by Use, and setCORS never runs for LocalUse with one.         *)
C8_WildcardCredentialsRefused ==
    /\ global.present => ~WildcardWithCredentials(global.origins)
    /\ (Evaluated /\ eval.entry = "LocalUse") => ~WildcardWithCredentials(eval.origins)

----------------------------------------------------------------------------
(* The policy holding only the wildcard entry, with default options. *)
WildcardOnly == [isNil |-> FALSE, m |-> [k \in {AllOrigins} |-> ZeroOptions]]

(* C9: under a nil or empty policy every request gets the response the     *)
(* policy {AllOrigins: default options} yields, and none with an Origin    *)
(* is rejected.                                                            *)
C9_EmptyPolicyIsWildcard ==
    (Evaluated /\ Keys(eval.origins) = {})
    => /\ Response = ResponseTo(rev, Request, WildcardOnly)
       /\ Request.Origin # "" => Response.status # StatusForbidden

----------------------------------------------------------------------------
(* C10: whenever Access-Control-Allow-Origin is written with the request's *)
(* Origin, Vary: Origin is written too.                                    *)
C10_VaryWithEchoedOrigin ==
    (/\ Evaluated
     /\ Written(headerAllowOrigin)
     /\ Response.headers[headerAllowOrigin] = Request.Origin)
    => /\ Written(headerVary)
       /\ Response.headers[headerVary] = "Origin"

----------------------------------------------------------------------------
(* The policy is the wildcard entry alone, with default options. *)
WildcardDefaultOnly(p) ==
    /\ Keys(p) = {AllOrigins}
    /\ p.m[AllOrigins] \in {NilOptions, ZeroOptions}

(* C11, as stated: under the wildcard entry alone with default options, a  *)
(* request with an Origin and a method other than OPTIONS gets             *)
(* Access-Control-Allow-Origin: *, no Vary, and the handler is called.     *)
C11_WildcardOnlyAnswersStar ==
    (/\ Evaluated
     /\ WildcardDefaultOnly(eval.origins)
     /\ Request.Origin # ""
     /\ Request.Method # "OPTIONS")
    => /\ Written(headerAllowOrigin)
       /\ Response.headers[headerAllowOrigin] = "*"
       /\ ~Written(headerVary)
       /\ Continue

(* C11, amended: such a request gets Access-Control-Allow-Origin set to    *)
(* its own Origin, Vary: Origin unless that Origin is the literal "*",     *)
(* no other CORS header, and the handler is called.                        *)
C11_WildcardOnlyEchoesOrigin ==
    (/\ Evaluated
     /\ WildcardDefaultOnly(eval.origins)
     /\ Request.Origin # ""
     /\ Request.Method # "OPTIONS")
    => /\ Written(headerAllowOrigin)
       /\ Response.headers[headerAllowOrigin] = Request.Origin
       /\ Request.Origin # AllOrigins
            => Written(headerVary) /\ Response.headers[headerVary] = "Origin"
       /\ DOMAIN Response.headers \subseteq {headerAllowOrigin, headerVary}
       /\ Continue

C11_Witness ==
    /\ Evaluated
    /\ rev = "part_000"
    /\ eval.entry = "Use"
    /\ WildcardDefaultOnly(eval.origins)
    /\ Request.Origin = OtherOrigin
    /\ Request.Method = "GET"
    /\ Response.headers[headerAllowOrigin] = OtherOrigin
    /\ Response.headers[headerVary] = "Origin"
    /\ Response.handlerCalls = 1

----------------------------------------------------------------------------
(* C14: in every evaluation the handler is called at most once; it is      *)
(* called exactly when no status is written (the decision is Continue),    *)
(* that is for a request without Origin or a request of another method     *)
(* than OPTIONS that is not rejected; and the call is the last thing       *)
(* setCORS does, so every header is set before it.                         *)
C14_HandlerOnceAndLast ==
    Evaluated
    => /\ Response.handlerCalls <= 1
       /\ Response.handlerCalls = 1 <=> Response.status = 0
       /\ Response.handlerCalls = 1
            <=> \/ Request.Origin = ""
                \/ Request.Method # "OPTIONS" /\ Response.status # StatusForbidden
       /\ (Resolves(eval.origins, Request.Origin) /\ Request.Method # "OPTIONS")
            => Response.handlerCalls = 1
       /\ \A i \in DOMAIN Response.log :
             Response.log[i] = "handler" => i = Len(Response.log)
       /\ (Response.handlerCalls = 1 /\ Request.Origin # "")
            => Response.log[1] = "Set " \o headerAllowOrigin

C14_Witness ==
    /\ Evaluated
    /\ rev = "part_000"
    /\ Request.Origin = KnownOrigin
    /\ Request.Method = "GET"
    /\ Response.log = <<"Set Access-Control-Allow-Origin", "Set Vary",
                        "Set Access-Control-Allow-Credentials",
                        "Set Access-Control-Expose-Headers",
                        "Set Access-Control-Max-Age", "handler">>

----------------------------------------------------------------------------
(* The cached value is present exactly when wanted, and then holds s. *)
Cached(ptr, wanted, s) == IF wanted THEN ptr = StringPtr(s) ELSE ptr = NilString

(* C15: in a revision with formatCORS, compiling a policy that does not    *)
(* pair the wildcard with credentials never fails, and every compiled      *)
(* rule caches a value exactly for the fields that are set: the lists      *)
(* joined with ", ", the max-age in seconds, "true" for credentials.       *)
C15_CompileKeepsEveryField ==
    /\ (/\ rev \in FormattingRevisions
        /\ eval.entry = "LocalUse"
        /\ ~WildcardWithCredentials(eval.origins))
       => crashed = ""
    /\ (rev \in FormattingRevisions /\ global.present)
       => \A k \in Keys(global.origins) :
             LET o == global.origins.m[k]
                 f == global.fmtOpt[k]
             IN /\ Cached(f.AllowedHeaders, Len(o.AllowedHeaders) > 0,
                          Join(o.AllowedHeaders, ", "))
                /\ Cached(f.AllowedMethods, Len(o.AllowedMethods) > 0,
                          Join(o.AllowedMethods, ", "))
                /\ Cached(f.ExposedHeaders, Len(o.ExposedHeaders) > 0,
                          Join(o.ExposedHeaders, ", "))
                /\ Cached(f.CredentialsAllowed, o.CredentialsAllowed, "true")
                /\ Cached(f.MaxAge, o.MaxAge # 0, FormatSeconds(o.MaxAge))

----------------------------------------------------------------------------
(* The decimal integers a duration's whole seconds can be written as: the  *)
(* seconds cut off, or rounded to the nearest second.                      *)
WholeSeconds(d) ==
    LET abs == IF d < 0 THEN 0 - d ELSE d
        sign(n) == IF d < 0 /\ n # 0 THEN "-" \o ToString(n) ELSE ToString(n)
    IN {sign(abs \div Second), sign((abs + Second \div 2) \div Second),
        sign((abs + Second \div 2 - 1) \div Second)}

(* C16: for a request whose Origin resolves to a rule,                     *)
(* Access-Control-Max-Age is written exactly when the rule's max-age is    *)
(* not zero, sub-second and negative durations included, and its value is  *)
(* the max-age in whole seconds as a decimal integer.                      *)
C16_MaxAgeWrittenWhenNonZero ==
    (/\ Evaluated
     /\ Request.Origin # ""
     /\ Resolves(eval.origins, Request.Origin))
    => /\ Written(headerMaxAge)
            <=> RuleOf(eval.origins, Request.Origin).MaxAge # 0
       /\ Written(headerMaxAge)
            => Response.headers[headerMaxAge]
                 \in WholeSeconds(RuleOf(eval.origins, Request.Origin).MaxAge)

----------------------------------------------------------------------------
(* Vocabulary of the properties of the handlers stack. *)

(* The stack is the handlers of the given kinds, in this order. *)
StackIs(kinds) ==
    /\ Len(stack) = Len(kinds)
    /\ \A i \in DOMAIN stack : stack[i].kind = kinds[i]

(* The CORS headers (and Vary) of a response. *)
CORSHeadersOf(w) ==
    [h \in (DOMAIN w.headers) \cap (CORSHeaders \cup {headerVary}) |-> w.headers[h]]

(* The decision a response shows. *)
DecisionOf(w) ==
    IF w.status = StatusForbidden THEN "reject"
    ELSE IF w.status = StatusOK THEN "stop"
    ELSE "continue"

----------------------------------------------------------------------------
(* C12: with two policies installed by cors.Use, P1 and then P2, every     *)
(* request that reaches the handlers downstream of the second carries      *)
(* exactly the CORS headers that evaluating P2 alone produces, with        *)
(* nothing left over from P1.                                              *)
C12_SecondUseOverwritesFirst ==
    (/\ crashed = ""
     /\ StackIs(<<"Use", "Use">>)
     /\ run.state = "downstream")
    => CORSHeadersOf(run.response) =
          CORSHeadersOf(ResponseTo(rev, run.request, stack[2].origins))

----------------------------------------------------------------------------
(* The decision taken for the request that went down the stack. *)
RunDecision ==
    IF run.state = "downstream" THEN "continue" ELSE DecisionOf(run.response)

(* C13: with a policy G installed by cors.Use upstream of a handler that   *)
(* calls cors.LocalUse with a policy L, the decision for every request to  *)
(* that handler (continue, answer the preflight, reject) is the one L      *)
(* alone yields, also for preflights and for origins G rejects.            *)
C13_LocalUseTakesPrecedence ==
    (/\ crashed = ""
     /\ StackIs(<<"Use", "LocalUse">>)
     /\ run.state \in {"stopped", "downstream"}
     /\ compile(rev, stack[2].origins).panic = "")
    => RunDecision = DecisionOf(ResponseTo(rev, run.request, stack[2].origins))

----------------------------------------------------------------------------
(* C17: evaluating a request never modifies the installed policy, also     *)
(* when the policy is nil or empty and the wildcard default is             *)
(* substituted; so whatever the interleaving of the requests that share a  *)
(* policy, the response of each (decision and headers) is the one that     *)
(* evaluating it alone against the policy as installed gives.              *)
C17_EvaluationLeavesPolicyAlone ==
    /\ [][global.present => global' = global]_vars
    /\ [](\A p \in Procs :
            (crashed = "" /\ procs[p].pc = "done")
            => procs[p].response =
                  ResponseTo(rev, procs[p].request, global.origins))

(* Two requests with an Origin under an empty policy, both past the        *)
(* substitution, one already answered while the other is before its        *)
(* lookup.                                                                 *)
C17_Witness ==
    /\ crashed = ""
    /\ global.present
    /\ ~global.origins.isNil
    /\ DOMAIN global.origins.m = {}
    /\ \E p, q \in Procs :
          /\ p # q
          /\ procs[p].pc = "done"
          /\ procs[p].local = "fresh"
          /\ procs[p].request.Origin # ""
          /\ procs[p].response.status # StatusForbidden
          /\ procs[q].pc = "bound"
          /\ procs[q].local = "fresh"

====
